---- MODULE Spec2Model ----
(***************************************************************************)
(* Model of rstor.synthetic_data.dead_leaves.dead_leaves_chart             *)
(* (src/src/rstor/synthetic_data/dead_leaves.py).                          *)
(*                                                                         *)
(* One call of dead_leaves_chart is a sequential program; every statement  *)
(* group of the function is one action and pc is the position in the       *)
(* function body.  Pixel values are intensity levels 0..MaxLevel standing  *)
(* for the floats 0.0 .. 1.0, a pixel is the tuple of its channels, and an *)
(* image is a function from the pixel coordinates <<x, y>> to pixels.      *)
(* Python's 0-based arrays are 1-based sequences here: circle k of the     *)
(* model is circle k-1 of the code, and i counts the circles processed.    *)
(***************************************************************************)
EXTENDS Integers, Sequences, FiniteSets, TLC

VARIABLES
    args,                 \* the arguments of the call (never assigned)
    uniform_checks,       \* whether this numpy build's uniform() rejects high < low
    pc,                   \* position in the function body
    err,                  \* the exception that ended the call, "" when none
    rng,                  \* the generator of line 40
    number_of_circles,    \* local, after the defaults of lines 42-43
    radius_min,           \* local, after the default of lines 44-45
    radius_max,           \* local, after the default of lines 46-47
    center_x,             \* sampled arrays (<<>> until sampled)
    center_y,
    radius,
    color,
    chart,                \* images (<<>> until allocated)
    buffer,
    is_not_covered_mask,
    i,                    \* circles processed by the compositing loop
    draws,                \* history: sampling calls made on rng in this call
    fills,                \* history: executions of the background fill (line 83)
    call,                 \* history: 1 for the first call, 2 for the repeated one
    prev                  \* history: what the previous call sampled and returned

vars == <<args, uniform_checks, pc, err, rng, number_of_circles, radius_min,
          radius_max, center_x, center_y, radius, color, chart, buffer,
          is_not_covered_mask, i, draws, fills, call, prev>>

----------------------------------------------------------------------------
(* Bounds of the model *)

\* largest explicitly requested circle count
MaxCircles == 2
\* intensity levels are 0 .. MaxLevel, MaxLevel standing for 1.0
MaxLevel == 4
\* number of states of the modelled generator, and resolution of its uniforms
RngMod == 8

(* Program constants *)

\* line 43: number_of_circles = 30 * max(size)
CirclesPerSide == 30
\* line 45: radius_min = 1.
DefaultRadiusMin == 1
\* line 47: radius_max = 2000.
DefaultRadiusMax == 2000
\* line 15: radius_alpha: Optional[int] = 3
DefaultAlpha == 3

Max(a, b) == IF a >= b THEN a ELSE b
Min(a, b) == IF a <= b THEN a ELSE b

RECURSIVE Pow(_, _)
Pow(b, e) == IF e = 0 THEN 1 ELSE b * Pow(b, e - 1)

----------------------------------------------------------------------------
(* Arguments.  size is <<height, width>> as in the code (size[0], size[1]  *)
(* of the code are size[1], size[2] here).  seed is <<>> for None and      *)
(* <<s>> for the integer s.                                                *)

\* default background (0.5, 0.5, 0.5), line 11
MidGray == <<MaxLevel \div 2, MaxLevel \div 2, MaxLevel \div 2>>
\* a background whose channels differ
Tinted == <<1, MaxLevel \div 2, MaxLevel>>

ArgSet ==
    { a \in [ size : {<<2, 2>>, <<0, 2>>, <<2, 0>>},
              number_of_circles : -1 .. MaxCircles,
              background_color : {MidGray, Tinted},
              colored : BOOLEAN,
              radius_min : {-1, 1, 2},
              radius_max : {-1, 1, 2},
              radius_alpha : {1, DefaultAlpha},
              seed : {<<>>, <<0>>, <<1>>},
              reverse : BOOLEAN ] :
        \* a call seeded from system entropy can draw any stream: such calls
        \* are enumerated for explicit circle counts and one radius range
        /\ a.seed = <<>> =>
             /\ a.number_of_circles >= 0
             /\ a.radius_min = 1
             /\ a.radius_max = 2
        \* calls that raise are enumerated for one radius range and background
        /\ (a.size[1] <= 0 \/ a.size[2] <= 0 \/ a.radius_alpha = 1) =>
             /\ a.radius_min = 1 /\ a.radius_max = 2
             /\ a.colored /\ a.background_color = MidGray }

\* radius_max < radius_min, after the defaults of lines 44-47
RangeReversed(a) ==
    (IF a.radius_max < 0 THEN DefaultRadiusMax ELSE a.radius_max)
      < (IF a.radius_min < 0 THEN DefaultRadiusMin ELSE a.radius_min)

\* the parameter invariant of the data model: alpha # 1, max >= min, size > 0
ValidArgs(a) ==
    /\ a.radius_alpha # 1
    /\ ~RangeReversed(a)
    /\ a.size[1] > 0 /\ a.size[2] > 0

Height == args.size[1]
Width == args.size[2]
Pixels == (0 .. Width - 1) \X (0 .. Height - 1)

----------------------------------------------------------------------------
(* The generator.  np.random.default_rng(np.random.SeedSequence(seed)) is  *)
(* a deterministic generator whose initial state is a function of the seed *)
(* or, for seed None, is taken from system entropy.  The model's generator *)
(* is a full-period congruential generator over 0 .. RngMod-1; a generator *)
(* seeded from entropy (kind "entropy") may produce any stream.            *)

NoRng == [kind |-> "none", s |-> 0]

\* a seeding that mixes the call counter into the state
SeedSequencePerCall(seed) == (3 * seed[1] + 1 + call) % RngMod

\* SeedSequence(seed): the initial state mixed from an integer seed
SeedSequence(seed) == (3 * seed[1] + 1) % RngMod

\* np.random.default_rng(np.random.SeedSequence(seed))  (line 40)
DefaultRng(seed) ==
    IF seed = <<>> THEN [kind |-> "entropy", s |-> 0]
    ELSE [kind |-> "seeded", s |-> SeedSequence(seed)]

Step(s) == (5 * s + 3) % RngMod

\* Step composed with itself 2^k times, as a table
RECURSIVE JumpTable(_)
JumpTable(k) ==
    IF k = 0 THEN [s \in 0 .. RngMod - 1 |-> Step(s)]
    ELSE LET t == JumpTable(k - 1) IN [s \in 0 .. RngMod - 1 |-> t[t[s]]]

RECURSIVE Jump(_, _, _)
Jump(s, n, k) ==
    IF n <= 0 THEN s
    ELSE Jump(IF n % 2 = 1 THEN JumpTable(k)[s] ELSE s, n \div 2, k + 1)

\* the generator's state after n steps from state s
StepN(s, n) == Jump(s, n, 0)

\* the raw outputs of n successive steps from state s
RawSeq(s, n) == [k \in 1 .. n |-> StepN(s, k)]

\* rng.integers(low, high, size=n), low < high: the possible
\* [vals, rng] outcomes
Integers_(g, low, high, n) ==
    IF g.kind = "entropy"
    THEN { [vals |-> v, rng |-> g] : v \in [1 .. n -> low .. high - 1] }
    ELSE LET raw == RawSeq(g.s, n)
         IN  { [vals |-> [k \in 1 .. n |-> low + (raw[k] % (high - low))],
                rng |-> [g EXCEPT !.s = StepN(g.s, n)]] }

\* rng.uniform(size=n) before scaling: numerators f of the fractions
\* f / RngMod in [0, 1)
Fractions(g, n) ==
    IF g.kind = "entropy"
    THEN { [vals |-> v, rng |-> g] : v \in [1 .. n -> 0 .. RngMod - 1] }
    ELSE { [vals |-> RawSeq(g.s, n), rng |-> [g EXCEPT !.s = StepN(g.s, n)]] }

----------------------------------------------------------------------------
(* Radius sampler, lines 55-62.  With e = radius_alpha - 1 >= 1 and         *)
(* u = low + (f/RngMod) * (high - low), low = radius_max^-e,                *)
(* high = radius_min^-e, the radius is round(u^(-1/e)), that is the         *)
(* rounded e-th root of Num / Den below.                                    *)

\* floor of the e-th root of q, by bisection in lo .. hi
RECURSIVE IRoot(_, _, _, _)
IRoot(q, e, lo, hi) ==
    IF lo >= hi THEN lo
    ELSE LET mid == (lo + hi + 1) \div 2
         IN  IF Pow(mid, e) <= q THEN IRoot(q, e, mid, hi)
             ELSE IRoot(q, e, lo, mid - 1)

\* radius ** (-1/(radius_alpha - 1)) then .round().astype(int)  (lines 61-62)
\* of the uniform sample with numerator f
RadiusOf(f, rmin, rmax, alpha) ==
    LET e    == alpha - 1
        num  == RngMod * Pow(rmin * rmax, e)
        den  == RngMod * Pow(rmin, e) + f * (Pow(rmax, e) - Pow(rmin, e))
        q    == (Pow(2, e) * num) \div den
        t    == IRoot(q, e, 0, 2 * Max(rmin, rmax) + 1)
        tie  == t % 2 = 1 /\ Pow(t, e) * den = Pow(2, e) * num
    IN  \* numpy rounds halves to the even integer
        IF tie THEN (IF ((t - 1) \div 2) % 2 = 0 THEN (t - 1) \div 2
                     ELSE (t + 1) \div 2)
        ELSE (t + 1) \div 2

\* lines 55-62 as a whole: the possible [vals, rng] outcomes
SampleRadii(g, n, rmin, rmax, alpha) ==
    IF g.kind = "entropy"
    THEN { [vals |-> v, rng |-> g] :
             v \in [1 .. n -> { RadiusOf(f, rmin, rmax, alpha) :
                                  f \in 0 .. RngMod - 1 }] }
    ELSE { [vals |-> [k \in 1 .. n |-> RadiusOf(o.vals[k], rmin, rmax, alpha)],
            rng |-> o.rng] : o \in Fractions(g, n) }

----------------------------------------------------------------------------
(* Color sampling, lines 65-69. *)

\* rstor.synthetic_data.color_sampler.sample_rgb_values(n, seed): n RGB
\* triples in [0, 1], a function of the sub-seed
SampleRgbValues(n, seed) ==
    [k \in 1 .. n |-> << (seed + k) % (MaxLevel + 1),
                         (2 * seed + 3 * k) % (MaxLevel + 1),
                         (3 * seed + 2 * k + 1) % (MaxLevel + 1) >>]

\* rng.uniform(0.25, 0.75): 0.25 + 0.5 * f / RngMod, as a level  (line 68)
GrayOf(f) == (MaxLevel * (RngMod + 2 * f)) \div (4 * RngMod)

\* np.concatenate((color, color, color), axis=1)  (line 69)
ReplicateOneChannel(g) == <<g, Min(g + 1, MaxLevel), g>>

Replicate(g) == <<g, g, g>>

\* lines 65-69 as a whole: the possible [vals, rng] outcomes
SampleColors(g, n, colored) ==
    IF colored
    THEN { [vals |-> SampleRgbValues(n, o.vals[1]), rng |-> o.rng] :
             o \in Integers_(g, 0, RngMod, 1) }
    ELSE IF g.kind = "entropy"
    THEN { [vals |-> v, rng |-> g] :
             v \in [1 .. n -> { Replicate(GrayOf(f)) : f \in 0 .. RngMod - 1 }] }
    ELSE { [vals |-> [k \in 1 .. n |-> Replicate(GrayOf(o.vals[k]))],
            rng |-> o.rng] : o \in Fractions(g, n) }

----------------------------------------------------------------------------
(* Images and the rasterizer. *)

\* np.zeros / np.ones of shape (h, w, channels): every pixel is px
Full(px) == [p \in Pixels |-> px]

Zero3 == <<0, 0, 0>>

\* the footprint of a filled circle: the pixels within the radius of the
\* centre, clipped to the image
Disk(cx, cy, r) ==
    { p \in Pixels : (p[1] - cx) * (p[1] - cx) + (p[2] - cy) * (p[2] - cy) <= r * r }

\* cv2.circle(img, (cx, cy), r, px, -1): in place, filled
Circle(img, cx, cy, r, px) ==
    [p \in Pixels |-> IF p \in Disk(cx, cy, r) THEN px ELSE img[p]]

\* a * m for a 3-channel image a and a 1-channel image m (broadcast)
Times(a, m) ==
    [p \in Pixels |-> LET x == a[p]
                          y == m[p][1]
                      IN  <<x[1] * y, x[2] * y, x[3] * y>>]

\* a + b for 3-channel images
Plus(a, b) ==
    [p \in Pixels |-> LET x == a[p]
                          y == b[p]
                      IN  <<x[1] + y[1], x[2] + y[2], x[3] + y[3]>>]

----------------------------------------------------------------------------
(* The compositing loops. *)

\* lines 76 and 78 unchanged and a line 77 that leaves the mask out
ReverseBodyUnmasked(st, k) ==
    LET buf == Circle(st.buffer, center_x[k], center_y[k], radius[k], color[k])
    IN  [ chart  |-> Plus(st.chart, buf),
          buffer |-> buf,
          mask   |-> Circle(st.mask, center_x[k], center_y[k], radius[k], <<0>>) ]

\* lines 76-77 unchanged and a mask of line 78 that is started afresh for
\* every circle
ReverseBodyFreshMask(st, k) ==
    LET buf == Circle(st.buffer, center_x[k], center_y[k], radius[k], color[k])
    IN  [ chart  |-> Plus(st.chart, Times(buf, st.mask)),
          buffer |-> buf,
          mask   |-> Circle(Full(<<1>>), center_x[k], center_y[k], radius[k], <<0>>) ]

\* lines 76-78: the body of the reverse loop for circle k, on the loop's
\* state st = [chart, buffer, mask]
ReverseBody(st, k) ==
    LET buf == Circle(st.buffer, center_x[k], center_y[k], radius[k], color[k])
    IN  [ chart  |-> Plus(st.chart, Times(buf, st.mask)),
          buffer |-> buf,
          mask   |-> Circle(st.mask, center_x[k], center_y[k], radius[k], <<0>>) ]

\* a test that never reports full coverage
NeverCovered(mask) == FALSE

\* a test that reports coverage as soon as one pixel is covered
SomeCovered(mask) == \E p \in Pixels : mask[p][1] = 0

\* line 80: not np.any(is_not_covered_mask)
FullyCovered(mask) == \A p \in Pixels : mask[p][1] = 0

\* line 83: chart += background * ones * is_not_covered_mask
FillBackground(ch, mask, bg) == Plus(ch, Times(Full(bg), mask))

\* painting only where the canvas still shows the background
ForwardBodyKeepFirst(ch, k) ==
    [p \in Pixels |->
        IF p \in Disk(center_x[k], center_y[k], radius[k])
           /\ ch[p] = args.background_color
        THEN color[k] ELSE ch[p]]

\* line 88: the body of the forward loop for circle k
ForwardBody(ch, k) == Circle(ch, center_x[k], center_y[k], radius[k], color[k])

\* line 90: chart.clip(0, 1)
ClipLevel(v) == IF v < 0 THEN 0 ELSE IF v > MaxLevel THEN MaxLevel ELSE v

Clip(ch) ==
    [p \in Pixels |-> LET x == ch[p]
                      IN  <<ClipLevel(x[1]), ClipLevel(x[2]), ClipLevel(x[3])>>]

\* line 93: chart[:, :, 0, None]
FirstChannel(ch) == [p \in Pixels |-> <<ch[p][1]>>]

----------------------------------------------------------------------------
(* State *)

NoCall == [pc |-> "", err |-> "", center_x |-> <<>>, center_y |-> <<>>,
           radius |-> <<>>, color |-> <<>>, chart |-> <<>>]

\* the locals at the entry of a call
Entry ==
    /\ pc = "start"
    /\ err = ""
    /\ rng = NoRng
    /\ number_of_circles = args.number_of_circles
    /\ radius_min = args.radius_min
    /\ radius_max = args.radius_max
    /\ center_x = <<>> /\ center_y = <<>> /\ radius = <<>> /\ color = <<>>
    /\ chart = <<>> /\ buffer = <<>> /\ is_not_covered_mask = <<>>
    /\ i = 0
    /\ draws = 0
    /\ fills = 0

Init ==
    /\ args \in ArgSet
    \* the build matters only to a call that passes high < low to uniform
    /\ uniform_checks \in (IF RangeReversed(args) THEN BOOLEAN ELSE {FALSE})
    /\ Entry
    /\ call = 1
    /\ prev = NoCall

Raise(e) == pc' = "raised" /\ err' = e

\* line 40
SeedRng ==
    /\ pc = "start"
    /\ rng' = DefaultRng(args.seed)
    /\ pc' = "defaults"
    /\ UNCHANGED <<args, uniform_checks, err, number_of_circles, radius_min,
                   radius_max, center_x, center_y, radius, color, chart, buffer,
                   is_not_covered_mask, i, draws, fills, call, prev>>

\* a default that also lifts a count of zero to one circle
CountAtLeastOne(n, size) ==
    IF n < 0 THEN CirclesPerSide * Max(size[1], size[2]) ELSE Max(n, 1)

\* lines 42-43
CountOrDefault(n, size) ==
    IF n < 0 THEN CirclesPerSide * Max(size[1], size[2]) ELSE n

\* lines 42-47
ApplyDefaults ==
    /\ pc = "defaults"
    /\ number_of_circles' = CountOrDefault(number_of_circles, args.size)
    /\ radius_min' = IF radius_min < 0 THEN DefaultRadiusMin ELSE radius_min
    /\ radius_max' = IF radius_max < 0 THEN DefaultRadiusMax ELSE radius_max
    /\ pc' = "center_x"
    /\ UNCHANGED <<args, uniform_checks, err, rng, center_x, center_y, radius,
                   color, chart, buffer, is_not_covered_mask, i, draws, fills,
                   call, prev>>

\* line 50: rng.integers(0, size[1], ...) raises ValueError when high <= low
SampleCenterX ==
    /\ pc = "center_x"
    /\ IF Width <= 0
       THEN /\ Raise("ValueError")
            /\ UNCHANGED <<rng, center_x, draws>>
       ELSE /\ \E o \in Integers_(rng, 0, Width, number_of_circles) :
                  center_x' = o.vals /\ rng' = o.rng
            /\ draws' = draws + 1
            /\ pc' = "center_y"
            /\ err' = err
    /\ UNCHANGED <<args, uniform_checks, number_of_circles, radius_min,
                   radius_max, center_y, radius, color, chart, buffer,
                   is_not_covered_mask, i, fills, call, prev>>

\* line 51
SampleCenterY ==
    /\ pc = "center_y"
    /\ IF Height <= 0
       THEN /\ Raise("ValueError")
            /\ UNCHANGED <<rng, center_y, draws>>
       ELSE /\ \E o \in Integers_(rng, 0, Height, number_of_circles) :
                  center_y' = o.vals /\ rng' = o.rng
            /\ draws' = draws + 1
            /\ pc' = "radius"
            /\ err' = err
    /\ UNCHANGED <<args, uniform_checks, number_of_circles, radius_min,
                   radius_max, center_x, radius, color, chart, buffer,
                   is_not_covered_mask, i, fills, call, prev>>

\* lines 55-62.  For radius_alpha = 1 both bounds of line 56-57 are 1, the
\* uniform of line 55 is drawn, and line 61 divides by zero.  For
\* radius_max < radius_min (radius_alpha > 1) low exceeds high: the numpy
\* build either raises ValueError or samples between the swapped bounds.
SampleRadius ==
    /\ pc = "radius"
    /\ IF args.radius_alpha = 1
       THEN /\ \E o \in Fractions(rng, number_of_circles) : rng' = o.rng
            /\ draws' = draws + 1
            /\ Raise("ZeroDivisionError")
            /\ UNCHANGED radius
       ELSE IF radius_max < radius_min /\ uniform_checks
       THEN /\ Raise("ValueError")
            /\ UNCHANGED <<rng, radius, draws>>
       ELSE /\ \E o \in SampleRadii(rng, number_of_circles, radius_min,
                                    radius_max, args.radius_alpha) :
                  radius' = o.vals /\ rng' = o.rng
            /\ draws' = draws + 1
            /\ pc' = "color"
            /\ err' = err
    /\ UNCHANGED <<args, uniform_checks, number_of_circles, radius_min,
                   radius_max, center_x, center_y, color, chart, buffer,
                   is_not_covered_mask, i, fills, call, prev>>

\* lines 65-69
SampleColor ==
    /\ pc = "color"
    /\ \E o \in SampleColors(rng, number_of_circles, args.colored) :
          color' = o.vals /\ rng' = o.rng
    /\ draws' = draws + 1
    /\ pc' = IF args.reverse THEN "reverse_init" ELSE "forward_init"
    /\ UNCHANGED <<args, uniform_checks, err, number_of_circles, radius_min,
                   radius_max, center_x, center_y, radius, chart, buffer,
                   is_not_covered_mask, i, fills, call, prev>>

\* lines 72-74
InitReverse ==
    /\ pc = "reverse_init"
    /\ chart' = Full(Zero3)
    /\ buffer' = Full(Zero3)
    /\ is_not_covered_mask' = Full(<<1>>)
    /\ pc' = "reverse_loop"
    /\ UNCHANGED <<args, uniform_checks, err, rng, number_of_circles, radius_min,
                   radius_max, center_x, center_y, radius, color, i, draws,
                   fills, call, prev>>

\* lines 75-81: one iteration of the reverse loop, with its break
ReverseIter ==
    /\ pc = "reverse_loop"
    /\ i < number_of_circles
    /\ LET st == ReverseBody([chart |-> chart, buffer |-> buffer,
                              mask |-> is_not_covered_mask], i + 1)
       IN  /\ chart' = st.chart
           /\ buffer' = st.buffer
           /\ is_not_covered_mask' = st.mask
           /\ pc' = IF FullyCovered(st.mask) THEN "fill" ELSE "reverse_loop"
    /\ i' = i + 1
    /\ UNCHANGED <<args, uniform_checks, err, rng, number_of_circles, radius_min,
                   radius_max, center_x, center_y, radius, color, draws, fills,
                   call, prev>>

\* line 75: the range is exhausted
ReverseExhausted ==
    /\ pc = "reverse_loop"
    /\ i >= number_of_circles
    /\ pc' = "fill"
    /\ UNCHANGED <<args, uniform_checks, err, rng, number_of_circles, radius_min,
                   radius_max, center_x, center_y, radius, color, chart, buffer,
                   is_not_covered_mask, i, draws, fills, call, prev>>

\* line 83
BackgroundFill ==
    /\ pc = "fill"
    /\ chart' = FillBackground(chart, is_not_covered_mask, args.background_color)
    /\ fills' = fills + 1
    /\ pc' = "clip"
    /\ UNCHANGED <<args, uniform_checks, err, rng, number_of_circles, radius_min,
                   radius_max, center_x, center_y, radius, color, buffer,
                   is_not_covered_mask, i, draws, call, prev>>

\* line 85
InitForward ==
    /\ pc = "forward_init"
    /\ chart' = Full(args.background_color)
    /\ pc' = "forward_loop"
    /\ UNCHANGED <<args, uniform_checks, err, rng, number_of_circles, radius_min,
                   radius_max, center_x, center_y, radius, color, buffer,
                   is_not_covered_mask, i, draws, fills, call, prev>>

\* lines 86-88: one iteration of the forward loop
ForwardIter ==
    /\ pc = "forward_loop"
    /\ i < number_of_circles
    /\ chart' = ForwardBody(chart, i + 1)
    /\ i' = i + 1
    /\ UNCHANGED <<args, uniform_checks, pc, err, rng, number_of_circles,
                   radius_min, radius_max, center_x, center_y, radius, color,
                   buffer, is_not_covered_mask, draws, fills, call, prev>>

\* line 86: the range is exhausted
ForwardExhausted ==
    /\ pc = "forward_loop"
    /\ i >= number_of_circles
    /\ pc' = "clip"
    /\ UNCHANGED <<args, uniform_checks, err, rng, number_of_circles, radius_min,
                   radius_max, center_x, center_y, radius, color, chart, buffer,
                   is_not_covered_mask, i, draws, fills, call, prev>>

\* line 90
ClipChart ==
    /\ pc = "clip"
    /\ chart' = Clip(chart)
    /\ pc' = "collapse"
    /\ UNCHANGED <<args, uniform_checks, err, rng, number_of_circles, radius_min,
                   radius_max, center_x, center_y, radius, color, buffer,
                   is_not_covered_mask, i, draws, fills, call, prev>>

\* lines 92-94
Return ==
    /\ pc = "collapse"
    /\ chart' = IF args.colored THEN chart ELSE FirstChannel(chart)
    /\ pc' = "done"
    /\ UNCHANGED <<args, uniform_checks, err, rng, number_of_circles, radius_min,
                   radius_max, center_x, center_y, radius, color, buffer,
                   is_not_covered_mask, i, draws, fills, call, prev>>

Next ==
    \/ SeedRng
    \/ ApplyDefaults
    \/ SampleCenterX
    \/ SampleCenterY
    \/ SampleRadius
    \/ SampleColor
    \/ InitReverse
    \/ ReverseIter
    \/ ReverseExhausted
    \/ BackgroundFill
    \/ InitForward
    \/ ForwardIter
    \/ ForwardExhausted
    \/ ClipChart
    \/ Return

Spec == Init /\ [][Next]_vars

(* A second, independent call with the same arguments, made after the     *)
(* first has ended.  All locals of the first call are gone; only what it  *)
(* sampled and returned is remembered, for comparison.                    *)
CallAgain ==
    /\ pc \in {"done", "raised"}
    /\ call = 1
    /\ call' = 2
    /\ prev' = [pc |-> pc, err |-> err, center_x |-> center_x,
                center_y |-> center_y, radius |-> radius, color |-> color,
                chart |-> chart]
    /\ pc' = "start"
    /\ err' = ""
    /\ rng' = NoRng
    /\ number_of_circles' = args.number_of_circles
    /\ radius_min' = args.radius_min
    /\ radius_max' = args.radius_max
    /\ center_x' = <<>> /\ center_y' = <<>> /\ radius' = <<>> /\ color' = <<>>
    /\ chart' = <<>> /\ buffer' = <<>> /\ is_not_covered_mask' = <<>>
    /\ i' = 0
    /\ draws' = 0
    /\ fills' = 0
    /\ UNCHANGED <<args, uniform_checks>>

InitSeeded == Init /\ args.seed # <<>>

NextTwo == Next \/ CallAgain

SpecTwo == InitSeeded /\ [][NextTwo]_vars

----------------------------------------------------------------------------
(* Vocabulary of the properties *)

\* circle k's disk covers pixel p
Covers(k, p) == p \in Disk(center_x[k], center_y[k], radius[k])

\* the circles among 1 .. n whose disk covers p
Covering(p, n) == { k \in 1 .. n : Covers(k, p) }

SetMin(S) == CHOOSE k \in S : \A j \in S : k <= j
SetMax(S) == CHOOSE k \in S : \A j \in S : k >= j

\* circles 1 .. n together cover the canvas
AllCoveredBy(n) == \A p \in Pixels : Covering(p, n) # {}

\* a composited pixel as the caller receives it
Returned(px) == IF args.colored THEN px ELSE <<px[1]>>

Terminated == pc \in {"done", "raised"}

\* the loop state of lines 72-74
ReverseStart == [chart |-> Full(Zero3), buffer |-> Full(Zero3), mask |-> Full(<<1>>)]

\* the reverse loop body applied to circles lo .. hi in order, no break
RECURSIVE ReverseRange(_, _, _)
ReverseRange(st, lo, hi) ==
    IF lo > hi THEN st
    ELSE IF lo = hi THEN ReverseBody(st, lo)
    ELSE LET mid == (lo + hi) \div 2
             left == ReverseRange(st, lo, mid)
         IN  ReverseRange(left, mid + 1, hi)

\* what lines 83-93 make of a loop state
Finish(st) ==
    LET ch == Clip(FillBackground(st.chart, st.mask, args.background_color))
    IN  IF args.colored THEN ch ELSE FirstChannel(ch)

----------------------------------------------------------------------------
(* C1: in reverse mode every pixel of the returned canvas has the colour   *)
(* of the first circle in list order whose disk covers it, and the         *)
(* background colour when no processed circle covers it.                   *)
C1_ReverseFirstWins ==
    (pc = "done" /\ args.reverse) =>
        \A p \in Pixels :
            /\ chart[p] = Returned(IF Covering(p, number_of_circles) # {}
                                   THEN color[SetMin(Covering(p, number_of_circles))]
                                   ELSE args.background_color)
            /\ Covering(p, i) = {} => chart[p] = Returned(args.background_color)

\* a returned reverse canvas with a pixel under two circles of different
\* colours and a pixel under none
C1_Witness ==
    /\ pc = "done" /\ args.reverse
    /\ \E p \in Pixels : \E j, k \in 1 .. i :
          j < k /\ Covers(j, p) /\ Covers(k, p) /\ color[j] # color[k]
          /\ chart[p] = Returned(color[j])
    /\ \E q \in Pixels : Covering(q, i) = {}

(* C2: in forward mode the canvas starts at the background colour, all N   *)
(* circles are painted in list order with no early exit, and every pixel   *)
(* of the returned canvas has the colour of the last circle covering it,   *)
(* or the background colour when none does.                                *)
C2_ForwardLastWins ==
    /\ (pc = "forward_loop" /\ i = 0) => chart = Full(args.background_color)
    /\ (pc = "done" /\ ~args.reverse) =>
          /\ i = number_of_circles
          /\ \A p \in Pixels :
                chart[p] = Returned(IF Covering(p, number_of_circles) # {}
                                    THEN color[SetMax(Covering(p, number_of_circles))]
                                    ELSE args.background_color)

\* a returned forward canvas with a pixel under two circles of different
\* colours and a pixel under none
C2_Witness ==
    /\ pc = "done" /\ ~args.reverse
    /\ \E p \in Pixels : \E j, k \in 1 .. i :
          j < k /\ Covers(j, p) /\ Covers(k, p) /\ color[j] # color[k]
          /\ chart[p] = Returned(color[k])
    /\ \E q \in Pixels : Covering(q, i) = {}

(* C3: the canvas returned by the reverse loop with its early exit equals  *)
(* the canvas the same loop yields when it processes all N circles.        *)
C3_EarlyExitEquivalence ==
    (pc = "done" /\ args.reverse) =>
        chart = Finish(ReverseRange(ReverseStart, 1, number_of_circles))

\* a returned reverse canvas whose loop left before the last circle, with a
\* later circle of another colour over a pixel
C3_Witness ==
    /\ pc = "done" /\ args.reverse
    /\ i < number_of_circles
    /\ \E p \in Pixels : \E k \in i + 1 .. number_of_circles :
          Covers(k, p) /\ Returned(color[k]) # chart[p]

(* C4: a call with invalid parameters (radius_alpha = 1,                   *)
(* radius_max < radius_min, or a non-positive size) fails before any       *)
(* sampling occurs and returns no canvas.                                  *)
C4_FailFast ==
    ~ValidArgs(args) => (draws = 0 /\ pc # "done")

(* C5 as stated: for every requested circle count <= 0 no circle is        *)
(* painted and every pixel of the returned canvas is the background        *)
(* colour.                                                                 *)
C5_NonPositiveCount ==
    (args.number_of_circles <= 0 /\ pc = "done") =>
        /\ i = 0
        /\ \A p \in Pixels : chart[p] = Returned(args.background_color)

(* C5, amended: for a requested circle count of exactly 0 and otherwise    *)
(* valid parameters the call raises nothing, paints no circle and returns  *)
(* the background colour at every pixel; a negative count is replaced by   *)
(* 30 * max(size) circles.                                                 *)
C5_ZeroCount ==
    /\ (args.number_of_circles = 0 /\ ValidArgs(args)) =>
          /\ pc # "raised"
          /\ i = 0
          /\ pc = "done" =>
                \A p \in Pixels : chart[p] = Returned(args.background_color)
    /\ (args.number_of_circles < 0 /\ pc \notin {"start", "defaults"}) =>
          number_of_circles = CirclesPerSide * Max(Height, Width)

\* a returned canvas of a call that asked for 0 circles
C5_Witness ==
    /\ args.number_of_circles = 0 /\ ValidArgs(args)
    /\ pc = "done"
    /\ chart = Full(Returned(args.background_color))

(* C6: a second call with the same non-null seed and the same other        *)
(* parameters samples the same centers, radii and colours and ends the     *)
(* same way with the same output buffer.                                   *)
C6_Determinism ==
    (call = 2 /\ args.seed # <<>> /\ Terminated) =>
        /\ pc = prev.pc /\ err = prev.err
        /\ center_x = prev.center_x /\ center_y = prev.center_y
        /\ radius = prev.radius /\ color = prev.color
        /\ chart = prev.chart

\* a second seeded call that has returned a canvas with circles on it
C6_Witness ==
    /\ call = 2 /\ args.seed # <<>> /\ pc = "done"
    /\ number_of_circles > 0
    /\ prev.pc = "done" /\ chart = prev.chart
    /\ \E p \in Pixels : Covering(p, i) # {}

(* C7 as stated: with colored = false the three channels of every pixel    *)
(* are identical when line 92 is reached, whatever the background.         *)
C7_AllChannelsEqual ==
    (pc = "collapse" /\ ~args.colored) =>
        \A p \in Pixels : chart[p][1] = chart[p][2] /\ chart[p][2] = chart[p][3]

(* C7, amended: with colored = false, when line 92 is reached the three    *)
(* channels are identical at every pixel under a processed circle, a pixel *)
(* under none holds the background colour with its own three channels, and *)
(* the returned buffer has exactly one channel, the first.                 *)
C7_GrayUnderCircles ==
    /\ (pc = "collapse" /\ ~args.colored) =>
          \A p \in Pixels :
              IF Covering(p, i) # {}
              THEN chart[p][1] = chart[p][2] /\ chart[p][2] = chart[p][3]
              ELSE chart[p] = args.background_color
    /\ (pc = "done" /\ ~args.colored) =>
          \A p \in Pixels : Len(chart[p]) = 1

\* a gray canvas at line 92 over a background whose channels differ, with a
\* pixel under a circle and a pixel under none
C7_Witness ==
    /\ pc = "collapse" /\ ~args.colored
    /\ args.background_color[1] # args.background_color[2]
    /\ \E p \in Pixels : Covering(p, i) # {}
    /\ \E q \in Pixels : Covering(q, i) = {} /\ chart[q][1] # chart[q][2]

(* C8: an iteration of the reverse loop for circle k changes the canvas    *)
(* only at the pixels inside circle k's disk that were uncovered before    *)
(* it, which receive exactly circle k's colour; every other pixel keeps    *)
(* its value, although the render buffer still holds the earlier circles.  *)
C8_IterationFrame ==
    [][ (pc = "reverse_loop" /\ i' = i + 1) =>
           \A p \in Pixels :
               chart'[p] = IF Covers(i + 1, p) /\ is_not_covered_mask[p] = <<1>>
                           THEN color[i + 1]
                           ELSE chart[p] ]_vars

\* after a second or later iteration: its circle committed a pixel no
\* earlier circle reaches, and the buffer still shows an earlier circle at a
\* pixel outside its disk
C8_Witness ==
    /\ args.reverse /\ pc \in {"reverse_loop", "fill"} /\ i >= 2
    /\ \E p \in Pixels :
          Covers(i, p) /\ Covering(p, i - 1) = {} /\ chart[p] = color[i]
    /\ \E q \in Pixels :
          ~Covers(i, q) /\ Covering(q, i - 1) # {} /\ buffer[q] # Zero3
          /\ buffer[q] # color[i]

(* C9: in reverse mode the mask starts with every pixel uncovered, a       *)
(* covered pixel never becomes uncovered again, in the loop or in the      *)
(* background fill, and after i circles a pixel is covered exactly when it *)
(* lies in the disk of one of them.                                        *)
C9_MaskMonotone ==
    /\ [](is_not_covered_mask # <<>> =>
            \A p \in Pixels :
                is_not_covered_mask[p] = (IF Covering(p, i) # {} THEN <<0>> ELSE <<1>>))
    /\ [][is_not_covered_mask # <<>> =>
            \A p \in Pixels :
                is_not_covered_mask[p] = <<0>> => is_not_covered_mask'[p] = <<0>>]_vars

\* a reverse call past its background fill whose mask has a pixel covered
\* by the first of several circles and a pixel still uncovered
C9_Witness ==
    /\ args.reverse /\ pc = "done" /\ i >= 2
    /\ \E p \in Pixels : Covers(1, p) /\ is_not_covered_mask[p] = <<0>>
    /\ \E q \in Pixels : is_not_covered_mask[q] = <<1>>

(* C10: the reverse loop goes on only while some pixel is uncovered: it    *)
(* ends right after the first circle that completes the coverage, and no   *)
(* later circle is rendered, or else after all N circles; it never runs    *)
(* more than N iterations, and the background fill then runs exactly once. *)
C10_EarlyExit ==
    /\ pc = "reverse_loop" =>
          /\ i <= number_of_circles
          /\ i > 0 => ~AllCoveredBy(i)
          /\ fills = 0
          /\ ENABLED (ReverseIter \/ ReverseExhausted)
    /\ (args.reverse /\ pc \in {"fill", "clip", "collapse", "done"}) =>
          /\ i <= number_of_circles
          /\ AllCoveredBy(i) \/ i = number_of_circles
          /\ \A j \in 1 .. i - 1 : ~AllCoveredBy(j)
          /\ \A p \in Pixels :
                buffer[p] = IF Covering(p, i) # {}
                            THEN color[SetMax(Covering(p, i))] ELSE Zero3
          /\ fills = IF pc = "fill" THEN 0 ELSE 1
          /\ pc = "fill" => ENABLED BackgroundFill
    /\ fills <= 1

\* a reverse call that has returned after leaving its loop before the last
\* circle, on full coverage
C10_Witness ==
    /\ args.reverse /\ pc = "done"
    /\ 0 < i /\ i < number_of_circles
    /\ AllCoveredBy(i) /\ ~AllCoveredBy(i - 1)
    /\ fills = 1

====
